---- MODULE Spec2Model ----
(***************************************************************************)
(* The driver notification / airport-transfer workflow of the driver       *)
(* portal (DriverNotifications component) against the airport_transfer and *)
(* drivers tables of the hosted database.                                  *)
(*                                                                         *)
(* Every browser session that shows the component is a "panel".  A handler *)
(* is an async function: each await is a point where other panels and      *)
(* other handlers of the same panel may run, so every handler is modelled  *)
(* as one action per await continuation.                                   *)
(***************************************************************************)
EXTENDS Integers, FiniteSets, Sequences, TLC

\* Requests (handler invocations and list fetches) one panel may have in
\* flight at a time.
MaxInFlight == 1

\* Direct handler calls explored by SpecCalls.
MaxCalls == 2

Panels == {"p1", "p2"}
DriverIds == {"d1", "d2"}
Null == "null"

\* Rows of airport_transfer, and the identifiers a handler may be called with
\* (identifier 0 matches no row).
Rows == {1, 2}
CallIds == Rows \cup {0}

Statuses == {"pending", "confirmed", "completed", "canceled"}
ActiveGroup == {"pending", "confirmed"}
HistoryGroup == {"completed", "canceled"}

\* ---------------------------------------------------------------- emails
\* An email is a sequence of characters; the drivers table stores lower-case
\* addresses, a session may carry another spelling.
ToLower(c) == CASE c = "A" -> "a" [] c = "B" -> "b" [] OTHER -> c
Lower(e) == [i \in DOMAIN e |-> ToLower(e[i])]

DriverEmail(d) == IF d = "d1" THEN <<"a", "x">> ELSE <<"b", "x">>

\* .eq("email", e): exact comparison
EqEmail(stored, e) == stored = e
\* .ilike("email", e): case-insensitive comparison
ILikeEmail(stored, e) == Lower(stored) = Lower(e)

NoUser == [email |-> <<>>]
Sessions ==
    { NoUser,
      [email |-> <<"a", "x">>],
      [email |-> <<"A", "x">>],
      [email |-> <<"b", "x">>],
      [email |-> <<"z", "x">>] }

VARIABLES
    db,            \* airport_transfer: row id -> [status, driver_id]
    session,       \* panel -> the authenticated user of the browser session
    historyMode,   \* panel -> the historyMode prop
    transfers,     \* panel -> local list (set of rows [id, status, driver_id])
    loading,       \* panel -> BOOLEAN
    error,         \* panel -> error message or Null
    isHistoryView, \* panel -> BOOLEAN
    driverId,      \* panel -> driver id state or Null
    toast,         \* panel -> kind of the last toast shown, or Null
    ops,           \* panel -> set of handler invocations in flight
    fetches,       \* panel -> set of fetchAirportTransfers invocations in flight
    calls,         \* handler calls made directly (not through a button) so far
    bookings,      \* the bookings table: a sequence of rows (read only)
    now,           \* the clock new Date() reads, in ticks
    overdueMessages, \* panel -> sequence of overdue messages
    unreadCount,   \* panel -> number shown in the badge
    before,        \* panel -> what the panel showed when Refresh was last clicked
                   \*          (kept for the properties; the program does not read it)
    adapter,       \* the send-whatsapp function: the request it is serving
    profile,       \* the ProfilePage component
    history        \* the TransactionHistory component

vars == <<db, session, historyMode, transfers, loading, error, isHistoryView,
          driverId, toast, ops, fetches, calls, bookings, now, overdueMessages,
          unreadCount, before, adapter, profile, history>>

\* ------------------------------------------------------------ the backend
\* a request is answered with data or with an error object
Outcomes == {"ok", "error"}
IdentityOutcomes == {"ok", "userError", "driverError"}

\* supabase.auth.getUser(): the user of the session, if there is one
HasUser(p) == session[p] # NoUser

\* from("drivers").select("id").ilike("email", e).maybeSingle()
\* "error" when several rows match, Null when none does.
LookupILike(e) ==
    LET m == {d \in DriverIds : ILikeEmail(DriverEmail(d), e)}
    IN  IF Cardinality(m) > 1 THEN "error"
        ELSE IF m = {} THEN Null ELSE CHOOSE d \in m : TRUE

\* from("drivers").select("id").eq("email", e).single()
\* "error" unless exactly one row matches.
LookupEq(e) ==
    LET m == {d \in DriverIds : EqEmail(DriverEmail(d), e)}
    IN  IF Cardinality(m) = 1 THEN CHOOSE d \in m : TRUE ELSE "error"

StatusGroupUnfiltered(hm) == Statuses

\* .in("status", [...]) of the list query
StatusGroup(hm) == IF hm THEN HistoryGroup ELSE ActiveGroup

\* from("airport_transfer").select("*").eq("driver_id", d).in("status", group)
SelectTransfers(d, hm) ==
    { [id |-> t, status |-> db[t].status, driver_id |-> db[t].driver_id] :
        t \in {u \in Rows : db[u].driver_id = d /\ db[u].status \in StatusGroup(hm)} }

\* (variants of the patches and of the list filter, used to test the properties)
AcceptPatchStatusOnly(row, d) == [row EXCEPT !.status = "confirmed"]
DeclinePatchUnassign(row) == [row EXCEPT !.status = "canceled", !.driver_id = Null]
CompletePatchAsDecline(row) == [row EXCEPT !.status = "canceled"]
CompletePatchToggle(row) ==
    [row EXCEPT !.status = IF @ = "completed" THEN "confirmed" ELSE "completed"]

\* the values the three updates write into the matched row
AcceptPatch(row, d) == [row EXCEPT !.status = "confirmed", !.driver_id = d]
DeclinePatch(row) == [row EXCEPT !.status = "canceled"]
CompletePatch(row) == [row EXCEPT !.status = "completed"]

\* the patch a handler invocation sends, applied to a row
OpPatch(op, row) ==
    CASE op.kind = "accept" -> AcceptPatch(row, op.driver)
      [] op.kind = "decline" -> DeclinePatch(row)
      [] op.kind = "complete" -> CompletePatch(row)

\* (variant: the update is sent without its .eq("id", ...) filter)
UpdateRowAll(op) ==
    [t \in Rows |-> OpPatch(op, db[t])]

\* .update(patch).eq("id", op.id): rewrites the matching row, if there is one
UpdateRow(op) ==
    IF op.id \in Rows THEN [db EXCEPT ![op.id] = OpPatch(op, db[op.id])] ELSE db

\* setTransfers(prev => prev.map(item => item.id === t ? patched : item))
MapLocal(list, op) ==
    { IF r.id = op.id THEN OpPatch(op, r) ELSE r : r \in list }

EmptyMessage(hm) ==
    IF hm THEN "No airport transfer history found."
    ELSE "No pending transfers assigned to you."

InFlight(p) == Cardinality(ops[p]) + Cardinality(fetches[p])

\* Invocations in flight are told apart by a number n: the least one not
\* carried by the invocations in S.
FreshNumber(S) ==
    CHOOSE n \in 1..(Cardinality(S) + 1) :
        /\ n \notin {x.n : x \in S}
        /\ \A m \in 1..(n - 1) : m \in {x.n : x \in S}

NewFetch(fs) ==
    [n |-> FreshNumber(fs), stage |-> "identity", driver |-> Null, data |-> {},
     rows |-> <<>>, failed |-> FALSE]

\* -------------------------------------------------- the overdue deriver
\* One day, 1000 * 60 * 60 * 24 ms, in ticks of the clock.
DayTicks == 2

\* the clock values explored
MaxNow == 5

\* booking.end_date: null, or a point in time (in ticks)
NoDate == {}
Date(t) == {t}
\* new Date(d).getTime()
GetTime(d) == CHOOSE t \in d : TRUE

\* remaining_payments values of the bookings explored
Amounts == {0, 500000}

\* Math.ceil(a / b), for b > 0
Ceil(a, b) == 0 - ((0 - a) \div b)

\* from("bookings").select(...).eq("user_id", userId).gt("remaining_payments", 0)
SelectBookings(userId) ==
    SelectSeq(bookings, LAMBDA b : b.user_id = userId /\ b.remaining_payments > 0)

\* diffDays of a booking with an end date
DiffDays(b, today) == Ceil(today - GetTime(b.end_date), DayTicks)

\* (variant: the message is pushed whatever diffDays is)
SurfacedAlways(b, today) == b.end_date # NoDate

\* if (booking.end_date) { ... if (diffDays > 0) messages.push(...) }
Surfaced(b, today) == b.end_date # NoDate /\ DiffDays(b, today) > 0

\* the message pushed for a booking (its text is left out)
MessageOf(b, today) ==
    [id |-> b.id, created_at |-> b.end_date, is_read |-> FALSE, type |-> "overdue",
     amount |-> b.remaining_payments, days_overdue |-> DiffDays(b, today)]

\* bookingsData.forEach(...): the messages, in the order of the rows
RECURSIVE DeriveMessages(_, _)
DeriveMessages(rows, today) ==
    IF rows = <<>> THEN <<>>
    ELSE LET b == Head(rows)
             rest == DeriveMessages(Tail(rows), today)
         IN  IF Surfaced(b, today) THEN <<MessageOf(b, today)>> \o rest ELSE rest

\* messages.filter((m) => !m.is_read).length
Unread(msgs) == Len(SelectSeq(msgs, LAMBDA m : ~m.is_read))

TypeOK ==
    /\ db \in [Rows -> [status : Statuses, driver_id : DriverIds \cup {Null}]]
    /\ session \in [Panels -> Sessions]
    /\ historyMode \in [Panels -> BOOLEAN]
    /\ loading \in [Panels -> BOOLEAN]
    /\ isHistoryView \in [Panels -> BOOLEAN]
    /\ driverId \in [Panels -> DriverIds \cup {Null}]
    /\ \A p \in Panels :
         /\ \A r \in transfers[p] : r.id \in Rows /\ r.status \in Statuses
         /\ InFlight(p) <= MaxInFlight
    /\ calls \in Nat
    /\ now \in 0..MaxNow
    /\ \A i \in 1..Len(bookings) :
         bookings[i].user_id \in DriverIds /\ bookings[i].remaining_payments \in Amounts
    /\ \A p \in Panels : unreadCount[p] \in 0..Len(overdueMessages[p])

\* The browser sessions that are open: who is signed in on each panel and
\* the historyMode prop the component is rendered with.
Deployments ==
    { \* one driver on two devices
      [p1 |-> [user |-> [email |-> <<"a", "x">>], hm |-> FALSE],
       p2 |-> [user |-> [email |-> <<"a", "x">>], hm |-> FALSE]],
      \* two drivers
      [p1 |-> [user |-> [email |-> <<"a", "x">>], hm |-> FALSE],
       p2 |-> [user |-> [email |-> <<"b", "x">>], hm |-> FALSE]],
      \* a session email spelled in another case, and nobody signed in
      [p1 |-> [user |-> [email |-> <<"A", "x">>], hm |-> FALSE],
       p2 |-> [user |-> NoUser, hm |-> FALSE]],
      \* a history panel, and a user who is no driver
      [p1 |-> [user |-> [email |-> <<"a", "x">>], hm |-> TRUE],
       p2 |-> [user |-> [email |-> <<"z", "x">>], hm |-> FALSE]] }

\* Transfers are created upstream as pending, assigned or not.
InitialTables ==
    { t \in [Rows -> [status : {"pending"}, driver_id : DriverIds \cup {Null}]] :
        t[1].driver_id # "d2" /\ t[2].driver_id = "d2" }

\* ---------------------------------------------- the other components
\* The send-whatsapp function between two requests.  A part that may be
\* absent is kept as a set with at most one element.
AdapterIdle == [pc |-> "idle", req |-> {}, forwarded |-> {}, upstream |-> {}, response |-> {}]

\* ProfilePage as useState initialises it, before its effect has run;
\* userId is the prop, sessionUser the user id of the browser session, queries
\* the tables queried so far.  loadingSaldoHistory and saldoHistory are
\* set only by fetchSaldoHistory, which the effect defines and never calls:
\* no step of the page changes them.
ProfileUnmounted ==
    [pc |-> "unmounted", userId |-> Null, sessionUser |-> Null, user |-> {},
     loading |-> TRUE, error |-> Null, queries |-> {},
     loadingSaldoHistory |-> TRUE, saldoHistory |-> <<>>]

\* TransactionHistory as useState initialises it
HistoryUnmounted ==
    [pc |-> "unmounted", userId |-> Null, sessionUser |-> Null, currentUserId |-> Null,
     transactions |-> <<>>, loading |-> TRUE, error |-> Null, queries |-> {},
     searchQuery |-> <<>>, activeFilter |-> "all", currentPage |-> 1, rowsPerPage |-> 10]

\* the function is idle and the two pages are not open
Elsewhere ==
    /\ adapter = AdapterIdle
    /\ profile = ProfileUnmounted
    /\ history = HistoryUnmounted

\* After the component has mounted: the effect has called
\* fetchAirportTransfers, whose getUser request is in flight.
Mounted ==
    /\ transfers = [p \in Panels |-> {}]
    /\ overdueMessages = [p \in Panels |-> <<>>]
    /\ unreadCount = [p \in Panels |-> 0]
    /\ loading = [p \in Panels |-> TRUE]
    /\ error = [p \in Panels |-> Null]
    /\ isHistoryView = [p \in Panels |-> FALSE]
    /\ driverId = [p \in Panels |-> Null]
    /\ toast = [p \in Panels |-> Null]
    /\ ops = [p \in Panels |-> {}]
    /\ fetches = [p \in Panels |-> {NewFetch({})}]
    /\ calls = 0
    /\ before = [p \in Panels |-> {}]

\* The drivers of these sessions have no booking with a payment left.
Init ==
    /\ db \in InitialTables
    /\ \E dep \in Deployments :
         /\ session = [p \in Panels |-> dep[p].user]
         /\ historyMode = [p \in Panels |-> dep[p].hm]
    /\ bookings = <<>>
    /\ now = 0
    /\ Mounted
    /\ Elsewhere

\* ------------------------------------------------- fetchAirportTransfers
\* The synchronous head of fetchAirportTransfers: setLoading(true),
\* setError(null), then the getUser request is sent.
StartFetch(p, fs) ==
    /\ loading' = [loading EXCEPT ![p] = TRUE]
    /\ error' = [error EXCEPT ![p] = Null]
    /\ fetches' = [fetches EXCEPT ![p] = fs \cup {NewFetch(fs)}]

\* (variant: loading is not reset on the paths that end with an error)
EndFetchKeepsLoading(p, f, msg) ==
    /\ error' = [error EXCEPT ![p] = msg]
    /\ UNCHANGED loading
    /\ fetches' = [fetches EXCEPT ![p] = @ \ {f}]

\* An early return or the catch block: setError(msg), setLoading(false).
EndFetch(p, f, msg) ==
    /\ error' = [error EXCEPT ![p] = msg]
    /\ loading' = [loading EXCEPT ![p] = FALSE]
    /\ fetches' = [fetches EXCEPT ![p] = @ \ {f}]

\* getUser and then the drivers lookup answer.  Neither the session nor the
\* drivers table is written by this system and nothing is set between the
\* two awaits, so the two answers are taken in one step; o tells which of
\* the two requests, if any, came back with an error object.
FetchIdentity(p, f, o) ==
    /\ f \in fetches[p] /\ f.stage = "identity"
    /\ LET d == LookupILike(session[p].email) IN
       IF o = "userError" \/ ~HasUser(p) THEN
            EndFetch(p, f, "Driver not authenticated") /\ UNCHANGED driverId
       ELSE IF o = "driverError" \/ d = "error" THEN
            EndFetch(p, f, "Driver lookup failed") /\ UNCHANGED driverId
       ELSE IF d = Null THEN
            EndFetch(p, f, "Driver ID not found for current user") /\ UNCHANGED driverId
       ELSE /\ driverId' = [driverId EXCEPT ![p] = d]
            /\ fetches' = [fetches EXCEPT ![p] =
                              (@ \ {f}) \cup {[f EXCEPT !.stage = "query", !.driver = d]}]
            /\ UNCHANGED <<error, loading>>
    /\ UNCHANGED <<db, session, historyMode, adapter, profile, history, before, bookings, now, overdueMessages, unreadCount, transfers, isHistoryView, toast, ops, calls>>

\* the database runs the list query; its answer is then on its way
ServerQuery(p, f, o) ==
    /\ f \in fetches[p] /\ f.stage = "query"
    /\ o \in {"ok", "error"}
    /\ fetches' = [fetches EXCEPT ![p] = (@ \ {f}) \cup
          { IF o = "ok"
            THEN [f EXCEPT !.stage = "result", !.data = SelectTransfers(f.driver, historyMode[p])]
            ELSE [f EXCEPT !.stage = "result", !.failed = TRUE] }]
    /\ UNCHANGED <<db, session, historyMode, adapter, profile, history, before, bookings, now, overdueMessages, unreadCount, transfers, loading, error, isHistoryView,
                   driverId, toast, ops, calls>>

\* an await of the fetch throws: catch sets the error, finally ends loading
FetchThrow(p, f) ==
    /\ f \in fetches[p] /\ f.stage \in {"identity", "query"}
    /\ EndFetch(p, f, "An unexpected error occurred")
    /\ UNCHANGED <<db, session, historyMode, adapter, profile, history, before, bookings, now, overdueMessages, unreadCount, transfers, isHistoryView, driverId, toast, ops, calls>>

\* (variant: an empty answer does not replace the list)
FetchResultKeepsOnEmpty(p, f) ==
    /\ f \in fetches[p] /\ f.stage = "result"
    /\ IF f.failed
       THEN /\ error' = [error EXCEPT ![p] = "Failed to get airport transfers"]
            /\ UNCHANGED transfers
       ELSE /\ transfers' = [transfers EXCEPT ![p] = IF f.data = {} THEN @ ELSE f.data]
            /\ error' = [error EXCEPT ![p] =
                            IF f.data = {} THEN EmptyMessage(historyMode[p]) ELSE @]
    /\ fetches' = [fetches EXCEPT ![p] =
                      (@ \ {f}) \cup {[f EXCEPT !.stage = "overdue", !.data = {}, !.failed = FALSE]}]
    /\ UNCHANGED <<db, session, historyMode, adapter, profile, history, before, bookings, now, overdueMessages, unreadCount, loading, isHistoryView, driverId, toast, ops, calls>>

\* the list query answers: setTransfers / setError, then the bookings
\* request of fetchOverdueMessages is sent
FetchResult(p, f) ==
    /\ f \in fetches[p] /\ f.stage = "result"
    /\ IF f.failed
       THEN /\ error' = [error EXCEPT ![p] = "Failed to get airport transfers"]
            /\ UNCHANGED transfers
       ELSE /\ transfers' = [transfers EXCEPT ![p] = f.data]
            /\ error' = [error EXCEPT ![p] =
                            IF f.data = {} THEN EmptyMessage(historyMode[p]) ELSE @]
    /\ fetches' = [fetches EXCEPT ![p] =
                      (@ \ {f}) \cup {[f EXCEPT !.stage = "overdue", !.data = {}, !.failed = FALSE]}]
    /\ UNCHANGED <<db, session, historyMode, adapter, profile, history, before, bookings, now, overdueMessages, unreadCount, loading, isHistoryView, driverId, toast, ops, calls>>

\* the database runs the bookings query of fetchOverdueMessages (called with
\* the resolved driver id); its answer is then on its way
ServerBookings(p, f, o) ==
    /\ f \in fetches[p] /\ f.stage = "overdue"
    /\ o \in Outcomes
    /\ fetches' = [fetches EXCEPT ![p] = (@ \ {f}) \cup
          { IF o = "ok"
            THEN [f EXCEPT !.stage = "messages", !.rows = SelectBookings(f.driver)]
            ELSE [f EXCEPT !.stage = "messages", !.failed = TRUE] }]
    /\ UNCHANGED <<db, session, historyMode, adapter, profile, history, before, bookings, now, overdueMessages, unreadCount,
                   transfers, loading, error, isHistoryView, driverId, toast, ops, calls>>

\* (variant: the read flags of the messages already shown are kept)
FetchOverdueKeepsRead(p, f) ==
    /\ f \in fetches[p] /\ f.stage = "messages"
    /\ IF f.failed
       THEN UNCHANGED <<overdueMessages, unreadCount>>
       ELSE LET fresh == DeriveMessages(f.rows, now)
                old == overdueMessages[p]
                messages == [i \in 1..Len(fresh) |->
                    IF \E j \in 1..Len(old) : old[j].id = fresh[i].id /\ old[j].is_read
                    THEN [fresh[i] EXCEPT !.is_read = TRUE] ELSE fresh[i]]
            IN  /\ overdueMessages' = [overdueMessages EXCEPT ![p] = messages]
                /\ unreadCount' = [unreadCount EXCEPT ![p] = Unread(messages)]
    /\ loading' = [loading EXCEPT ![p] = FALSE]
    /\ fetches' = [fetches EXCEPT ![p] = @ \ {f}]
    /\ UNCHANGED <<db, session, historyMode, adapter, profile, history, before, bookings, now, transfers, error,
                   isHistoryView, driverId, toast, ops, calls>>

\* the bookings answer arrives: on an error fetchOverdueMessages only logs
\* and returns (so does its catch block); otherwise today = new Date(), the
\* messages are derived and set with the unread count.  Back in
\* fetchAirportTransfers, finally sets loading to false.
FetchOverdue(p, f) ==
    /\ f \in fetches[p] /\ f.stage = "messages"
    /\ IF f.failed
       THEN UNCHANGED <<overdueMessages, unreadCount>>
       ELSE LET messages == DeriveMessages(f.rows, now) IN
            /\ overdueMessages' = [overdueMessages EXCEPT ![p] = messages]
            /\ unreadCount' = [unreadCount EXCEPT ![p] = Unread(messages)]
    /\ loading' = [loading EXCEPT ![p] = FALSE]
    /\ fetches' = [fetches EXCEPT ![p] = @ \ {f}]
    /\ UNCHANGED <<db, session, historyMode, adapter, profile, history, before, bookings, now, transfers, error,
                   isHistoryView, driverId, toast, ops, calls>>

\* ------------------------------------------------------------ the header
\* onClick={fetchAirportTransfers} of the Refresh button (disabled while
\* loading)
PressRefresh(p) ==
    /\ ~loading[p]
    /\ StartFetch(p, fetches[p])
    /\ UNCHANGED <<db, session, historyMode, adapter, profile, history, bookings, now, overdueMessages, unreadCount,
                   transfers, isHistoryView, driverId, toast, ops>>

\* the Refresh button, pressed while fewer than MaxInFlight requests run
ClickRefresh(p) ==
    /\ InFlight(p) < MaxInFlight
    /\ PressRefresh(p)

Refresh(p) == ClickRefresh(p) /\ UNCHANGED <<calls, before>>

\* the view toggle: setIsHistoryView(!isHistoryView); the effect then fetches
ToggleView(p) ==
    /\ isHistoryView' = [isHistoryView EXCEPT ![p] = ~@]
    /\ StartFetch(p, fetches[p])
    /\ UNCHANGED <<db, session, historyMode, adapter, profile, history, before, bookings, now, overdueMessages, unreadCount, transfers, driverId, toast, ops, calls>>

\* the view toggle, pressed while fewer than MaxInFlight requests run
ToggleHistory(p) ==
    /\ InFlight(p) < MaxInFlight
    /\ ToggleView(p)

\* ------------------------------------------------------------ handleAccept
\* A toast is kept by its kind: variant "destructive" (title "Error") or not.
Destructive == "destructive"
Success == "success"

NewOp(p, kind, t) ==
    [n |-> FreshNumber(ops[p]), kind |-> kind, id |-> t, driver |-> Null,
     rejected |-> FALSE,
     stage |-> IF kind = "accept" THEN "identity" ELSE "update"]

\* a handler is invoked with identifier t: its first request is sent
Invoke(p, kind, t) ==
    /\ ops' = [ops EXCEPT ![p] = @ \cup {NewOp(p, kind, t)}]
    /\ UNCHANGED <<db, session, historyMode, adapter, profile, history, before, bookings, now, overdueMessages, unreadCount, transfers, loading, error, isHistoryView,
                   driverId, toast, fetches>>

\* a handler is invoked while fewer than MaxInFlight requests run
CallHandler(p, kind, t) ==
    /\ InFlight(p) < MaxInFlight
    /\ Invoke(p, kind, t)

\* (variant: the failure path also refetches)
EndOpRefetch(p, op, msg) ==
    /\ toast' = [toast EXCEPT ![p] = msg]
    /\ ops' = [ops EXCEPT ![p] = @ \ {op}]
    /\ StartFetch(p, fetches[p])
    /\ UNCHANGED <<db, session, historyMode, adapter, profile, history, before, bookings, now, overdueMessages, unreadCount, transfers, isHistoryView, driverId, calls>>

\* a handler returns after a toast, without any other effect
EndOp(p, op, msg) ==
    /\ toast' = [toast EXCEPT ![p] = msg]
    /\ ops' = [ops EXCEPT ![p] = @ \ {op}]
    /\ UNCHANGED <<db, session, historyMode, adapter, profile, history, before, bookings, now, overdueMessages, unreadCount, transfers, loading, error, isHistoryView,
                   driverId, fetches, calls>>

\* the update succeeded: optimistic local update, toast, then the refetch
\* (fetchAirportTransfers is called and not awaited)
Reconcile(p, op, msg) ==
    /\ transfers' = [transfers EXCEPT ![p] = MapLocal(@, op)]
    /\ toast' = [toast EXCEPT ![p] = msg]
    /\ ops' = [ops EXCEPT ![p] = @ \ {op}]
    /\ StartFetch(p, fetches[p])
    /\ UNCHANGED <<session, historyMode, adapter, profile, history, before, bookings, now, overdueMessages, unreadCount, isHistoryView, driverId, calls>>

\* (variant: the failed lookup toasts but does not return)
AcceptIdentityNoReturn(p, op, o) ==
    /\ op \in ops[p] /\ op.kind = "accept" /\ op.stage = "identity"
    /\ LET d == LookupEq(session[p].email) IN
       IF o = "userError" \/ ~HasUser(p)
       THEN EndOp(p, op, Destructive)
       ELSE /\ ops' = [ops EXCEPT ![p] = (@ \ {op}) \cup
                          {[op EXCEPT !.stage = "update",
                                      !.driver = IF o = "driverError" \/ d = "error"
                                                 THEN Null ELSE d]}]
            /\ toast' = [toast EXCEPT ![p] =
                            IF o = "driverError" \/ d = "error" THEN Destructive ELSE @]
            /\ UNCHANGED <<db, session, historyMode, adapter, profile, history, before, bookings, now, overdueMessages, unreadCount, transfers, loading, error,
                           isHistoryView, driverId, fetches, calls>>

\* getUser and then the drivers lookup answer handleAccept (one step, as in
\* FetchIdentity)
AcceptIdentity(p, op, o) ==
    /\ op \in ops[p] /\ op.kind = "accept" /\ op.stage = "identity"
    /\ LET d == LookupEq(session[p].email) IN
       IF o = "userError" \/ ~HasUser(p)
       THEN EndOp(p, op, Destructive) \* "Driver not authenticated."
       ELSE IF o = "driverError" \/ d = "error"
       THEN EndOp(p, op, Destructive) \* "Driver ID not found."
       ELSE /\ ops' = [ops EXCEPT ![p] =
                          (@ \ {op}) \cup {[op EXCEPT !.stage = "update", !.driver = d]}]
            /\ UNCHANGED <<db, session, historyMode, adapter, profile, history, before, bookings, now, overdueMessages, unreadCount, transfers, loading, error,
                           isHistoryView, driverId, toast, fetches, calls>>

\* the database runs an update sent by a handler: the matched row is
\* rewritten unless the backend rejects the request; the answer is on its way
ServerUpdate(p, op, o) ==
    /\ op \in ops[p] /\ op.stage = "update"
    /\ db' = IF o = "ok" THEN UpdateRow(op) ELSE db
    /\ ops' = [ops EXCEPT ![p] =
                  (@ \ {op}) \cup {[op EXCEPT !.stage = "answer", !.rejected = (o = "error")]}]
    /\ UNCHANGED <<session, historyMode, adapter, profile, history, before, bookings, now, overdueMessages, unreadCount, transfers, loading, error, isHistoryView,
                   driverId, toast, fetches, calls>>

\* the update of handleAccept
AcceptUpdate(p, op, o) ==
    /\ op.kind = "accept"
    /\ ServerUpdate(p, op, o)

\* the update of handleAccept has answered
AcceptAnswer(p, op) ==
    /\ op \in ops[p] /\ op.kind = "accept" /\ op.stage = "answer"
    /\ IF op.rejected
       THEN EndOp(p, op, Destructive) \* "Failed to accept the transfer."
       ELSE /\ Reconcile(p, op, Success) \* "Transfer accepted and driver assigned."
            /\ UNCHANGED db

\* an await of handleAccept throws: the catch block
AcceptThrow(p, op) ==
    /\ op \in ops[p] /\ op.kind = "accept" /\ op.stage # "answer"
    /\ EndOp(p, op, Destructive) \* "Something went wrong while accepting the transfer."

\* ----------------------------------------------------------- handleDecline
DeclineUpdate(p, op, o) ==
    /\ op.kind = "decline"
    /\ ServerUpdate(p, op, o)

DeclineAnswer(p, op) ==
    /\ op \in ops[p] /\ op.kind = "decline" /\ op.stage = "answer"
    /\ IF op.rejected
       THEN EndOp(p, op, Destructive) \* "Failed to cancel the transfer."
       ELSE /\ Reconcile(p, op, Success) \* "Transfer Declined"
            /\ UNCHANGED db

DeclineThrow(p, op) ==
    /\ op \in ops[p] /\ op.kind = "decline" /\ op.stage # "answer"
    /\ EndOp(p, op, Destructive) \* "An unexpected error occurred."

\* ---------------------------------------------------------- handleComplete
CompleteUpdate(p, op, o) ==
    /\ op.kind = "complete"
    /\ ServerUpdate(p, op, o)

CompleteAnswer(p, op) ==
    /\ op \in ops[p] /\ op.kind = "complete" /\ op.stage = "answer"
    /\ IF op.rejected
       THEN EndOp(p, op, Destructive) \* "Failed to mark the transfer as completed."
       ELSE /\ Reconcile(p, op, Success) \* "Transfer Completed"
            /\ UNCHANGED db

CompleteThrow(p, op) ==
    /\ op \in ops[p] /\ op.kind = "complete" /\ op.stage # "answer"
    /\ EndOp(p, op, Destructive) \* "An unexpected error occurred."

\* ------------------------------------------------------ the action buttons
\* Accept and Decline are rendered for a listed transfer that is pending,
\* Complete for one that is confirmed, none of them in the history view.
Offered(p, kind, t) ==
    /\ ~isHistoryView[p]
    /\ \E r \in transfers[p] :
         /\ r.id = t
         /\ r.status = (IF kind = "complete" THEN "confirmed" ELSE "pending")

ClickAccept(p, t) ==
    Offered(p, "accept", t) /\ CallHandler(p, "accept", t) /\ calls' = calls
ClickDecline(p, t) ==
    Offered(p, "decline", t) /\ CallHandler(p, "decline", t) /\ calls' = calls
ClickComplete(p, t) ==
    Offered(p, "complete", t) /\ CallHandler(p, "complete", t) /\ calls' = calls

\* the handlers called with any identifier
DirectCall(p, kind, t) ==
    calls < MaxCalls /\ CallHandler(p, kind, t) /\ calls' = calls + 1

CallAccept(p, t) == DirectCall(p, "accept", t)
CallDecline(p, t) == DirectCall(p, "decline", t)
CallComplete(p, t) == DirectCall(p, "complete", t)

\* ------------------------------------------------------------------- steps
\* the continuations of the requests in flight
FetchStep(p) ==
    \/ \E f \in fetches[p], o \in IdentityOutcomes : FetchIdentity(p, f, o)
    \/ \E f \in fetches[p], o \in Outcomes : ServerQuery(p, f, o)
    \/ \E f \in fetches[p] : FetchResult(p, f)
    \/ \E f \in fetches[p], o \in Outcomes : ServerBookings(p, f, o)
    \/ \E f \in fetches[p] : FetchOverdue(p, f)
    \/ \E f \in fetches[p] : FetchThrow(p, f)

ContinueFetch == \E p \in Panels : FetchStep(p)

ContinueAccept ==
    \E p \in Panels :
        \/ \E op \in ops[p], o \in IdentityOutcomes : AcceptIdentity(p, op, o)
        \/ \E op \in ops[p], o \in Outcomes : AcceptUpdate(p, op, o)
        \/ \E op \in ops[p] : AcceptAnswer(p, op)
        \/ \E op \in ops[p] : AcceptThrow(p, op)

ContinueDecline ==
    \E p \in Panels :
        \/ \E op \in ops[p], o \in Outcomes : DeclineUpdate(p, op, o)
        \/ \E op \in ops[p] : DeclineAnswer(p, op)
        \/ \E op \in ops[p] : DeclineThrow(p, op)

ContinueComplete ==
    \E p \in Panels :
        \/ \E op \in ops[p], o \in Outcomes : CompleteUpdate(p, op, o)
        \/ \E op \in ops[p] : CompleteAnswer(p, op)
        \/ \E op \in ops[p] : CompleteThrow(p, op)

\* the component as the user drives it
Next ==
    \/ ContinueFetch
    \/ ContinueAccept
    \/ ContinueDecline
    \/ ContinueComplete
    \/ \E p \in Panels :
        \/ Refresh(p)
        \/ ToggleHistory(p)
        \/ \E t \in Rows : ClickAccept(p, t)
        \/ \E t \in Rows : ClickDecline(p, t)
        \/ \E t \in Rows : ClickComplete(p, t)

Spec == Init /\ [][Next]_vars

\* The list fetch alone: the fetch on mount and the Refresh button.  Every
\* request is answered or fails in the end (the transport has its timeout)
\* and the continuation of an await runs when its promise has settled, so a
\* fetch in flight on a panel takes its next step.
NextFetch ==
    \/ ContinueFetch
    \/ \E p \in Panels : Refresh(p)

SpecFetch ==
    Init /\ [][NextFetch]_vars /\ \A p \in Panels : WF_vars(FetchStep(p))

\* the handlers as operations: up to MaxCalls calls, on any identifier
NextCalls ==
    \/ ContinueFetch
    \/ ContinueAccept
    \/ ContinueDecline
    \/ ContinueComplete
    \/ \E p \in Panels :
        \/ \E t \in CallIds : CallAccept(p, t)
        \/ \E t \in CallIds : CallDecline(p, t)
        \/ \E t \in CallIds : CallComplete(p, t)

SpecCalls == Init /\ [][NextCalls]_vars

\* ------------------------------------------------- the concurrent accepts
\* Both drivers, their lists loaded, accept transfer 1 once; when both
\* handlers have returned with success, the driver whose update was
\* overwritten presses Refresh.
Settled == \A p \in Panels : toast[p] = Success /\ ops[p] = {}

RaceAccept(p) ==
    /\ toast[p] = Null /\ ops[p] = {} /\ fetches[p] = {}
    /\ CallAccept(p, 1)

RaceRefresh(p) ==
    /\ Settled
    /\ db[1].driver_id \notin {d \in DriverIds : EqEmail(DriverEmail(d), session[p].email)}
    /\ calls = Cardinality(Panels)
    /\ ClickRefresh(p)
    /\ calls' = calls + 1
    /\ UNCHANGED before

InitRace ==
    /\ Init
    /\ \A p, q \in Panels :
         /\ LookupEq(session[p].email) \in DriverIds
         /\ p # q => session[p] # session[q]
         /\ ~historyMode[p]

NextRace ==
    \/ ContinueFetch
    \/ ContinueAccept
    \/ \E p \in Panels :
        \/ RaceAccept(p)
        \/ RaceRefresh(p)

SpecRace == InitRace /\ [][NextRace]_vars

\* ------------------------------------------------ resolving the driver
\* A backend that answers every request: the panels load and are refreshed,
\* and Accept is clicked on the listed transfers.
NextResolve ==
    \E p \in Panels :
        \/ \E f \in fetches[p] : FetchIdentity(p, f, "ok")
        \/ \E f \in fetches[p] : ServerQuery(p, f, "ok")
        \/ \E f \in fetches[p] : FetchResult(p, f)
        \/ \E f \in fetches[p] : ServerBookings(p, f, "ok")
        \/ \E f \in fetches[p] : FetchOverdue(p, f)
        \/ Refresh(p)
        \/ \E t \in Rows : ClickAccept(p, t)
        \/ \E op \in ops[p] : AcceptIdentity(p, op, "ok")
        \/ \E op \in ops[p] : AcceptUpdate(p, op, "ok")
        \/ \E op \in ops[p] : AcceptAnswer(p, op)

SpecResolve == Init /\ [][NextResolve]_vars

\* ------------------------------------------------- overlapping requests
\* No control of the panel waits for the requests in flight, except Refresh,
\* which is disabled while loading: a button can be clicked while a fetch is
\* running, and the view toggled or refreshed while a handler is running.
\* Here up to MaxOverlap requests of a panel run at the same time, against a
\* backend that answers every request.
MaxOverlap == 2

OverlapRefresh(p) ==
    InFlight(p) < MaxOverlap /\ PressRefresh(p) /\ UNCHANGED <<calls, before>>
OverlapToggle(p) ==
    InFlight(p) < MaxOverlap /\ ToggleView(p)
OverlapClick(p, kind, t) ==
    /\ InFlight(p) < MaxOverlap
    /\ Offered(p, kind, t)
    /\ Invoke(p, kind, t)
    /\ calls' = calls

OverlapAccept(p, t) == OverlapClick(p, "accept", t)
OverlapDecline(p, t) == OverlapClick(p, "decline", t)
OverlapComplete(p, t) == OverlapClick(p, "complete", t)

NextOverlap ==
    \E p \in Panels :
        \/ \E f \in fetches[p] : FetchIdentity(p, f, "ok")
        \/ \E f \in fetches[p] : ServerQuery(p, f, "ok")
        \/ \E f \in fetches[p] : FetchResult(p, f)
        \/ \E f \in fetches[p] : ServerBookings(p, f, "ok")
        \/ \E f \in fetches[p] : FetchOverdue(p, f)
        \/ \E op \in ops[p] : AcceptIdentity(p, op, "ok")
        \/ \E op \in ops[p] : AcceptUpdate(p, op, "ok")
        \/ \E op \in ops[p] : AcceptAnswer(p, op)
        \/ \E op \in ops[p] : DeclineUpdate(p, op, "ok")
        \/ \E op \in ops[p] : DeclineAnswer(p, op)
        \/ \E op \in ops[p] : CompleteUpdate(p, op, "ok")
        \/ \E op \in ops[p] : CompleteAnswer(p, op)
        \/ OverlapRefresh(p)
        \/ OverlapToggle(p)
        \/ \E t \in Rows : OverlapAccept(p, t)
        \/ \E t \in Rows : OverlapDecline(p, t)
        \/ \E t \in Rows : OverlapComplete(p, t)

\* one driver is signed in, on one panel
InitOverlap ==
    /\ db \in InitialTables
    /\ session = [p \in Panels |->
                     IF p = "p1" THEN [email |-> DriverEmail("d1")] ELSE NoUser]
    /\ historyMode = [p \in Panels |-> FALSE]
    /\ bookings = <<>>
    /\ now = 0
    /\ Mounted
    /\ Elsewhere

SpecOverlap == InitOverlap /\ [][NextOverlap]_vars

\* ------------------------------------------------- the overdue messages
\* (variant: the badge is decremented only for a message that was unread)
MarkMessageAsReadOnce(p, i) ==
    /\ ~isHistoryView[p]
    /\ i \in 1..Len(overdueMessages[p])
    /\ LET messageId == overdueMessages[p][i].id IN
       overdueMessages' = [overdueMessages EXCEPT ![p] =
           [j \in 1..Len(@) |-> IF @[j].id = messageId
                                THEN [@[j] EXCEPT !.is_read = TRUE] ELSE @[j]]]
    /\ unreadCount' = [unreadCount EXCEPT ![p] =
                          IF overdueMessages[p][i].is_read THEN @ ELSE @ - 1]
    /\ UNCHANGED <<db, session, historyMode, adapter, profile, history, before, bookings, now, transfers, loading, error,
                   isHistoryView, driverId, toast, ops, fetches, calls>>

\* a click on the i-th message of the list (shown outside the history view):
\* markMessageAsRead(message.id)
MarkMessageAsRead(p, i) ==
    /\ ~isHistoryView[p]
    /\ i \in 1..Len(overdueMessages[p])
    /\ LET messageId == overdueMessages[p][i].id IN
       overdueMessages' = [overdueMessages EXCEPT ![p] =
           [j \in 1..Len(@) |-> IF @[j].id = messageId
                                THEN [@[j] EXCEPT !.is_read = TRUE] ELSE @[j]]]
    /\ unreadCount' = [unreadCount EXCEPT ![p] = IF @ - 1 > 0 THEN @ - 1 ELSE 0]
    /\ UNCHANGED <<db, session, historyMode, adapter, profile, history, before, bookings, now, transfers, loading, error,
                   isHistoryView, driverId, toast, ops, fetches, calls>>

\* time passes
Tick ==
    /\ now < MaxNow
    /\ now' = now + 1
    /\ UNCHANGED <<db, session, historyMode, adapter, profile, history, before, bookings, transfers, loading, error,
                   isHistoryView, driverId, toast, ops, fetches, calls, overdueMessages,
                   unreadCount, before>>

\* The panel of a driver with bookings, watched over some days: the fetches,
\* the header buttons and the clicks on the messages.  On the other panel
\* nobody is signed in.
EndDates == {NoDate, Date(0), Date(1), Date(2 * DayTicks)}

InitialBookings ==
    { <<[id |-> 1, user_id |-> "d1", end_date |-> e1, remaining_payments |-> a1],
        [id |-> 2, user_id |-> u2, end_date |-> e2, remaining_payments |-> 500000]>> :
        e1 \in EndDates, a1 \in Amounts, u2 \in DriverIds, e2 \in EndDates }

InitView ==
    /\ db \in InitialTables
    /\ session = [p \in Panels |->
                     IF p = "p1" THEN [email |-> DriverEmail("d1")] ELSE NoUser]
    /\ historyMode = [p \in Panels |-> FALSE]
    /\ bookings \in InitialBookings
    /\ now = 0
    /\ Mounted
    /\ Elsewhere

NextView ==
    \/ ContinueFetch
    \/ Tick
    \/ \E p \in Panels :
        \/ Refresh(p)
        \/ ToggleHistory(p)
        \/ \E i \in 1..Len(overdueMessages[p]) : MarkMessageAsRead(p, i)

SpecView == InitView /\ [][NextView]_vars

\* ------------------------------------------------------- repeated Refresh
\* what a panel shows: the list, the error line, the messages and the badge
View(p) ==
    [transfers |-> transfers[p], error |-> error[p], messages |-> overdueMessages[p],
     unread |-> unreadCount[p]]

\* Refresh is clicked on a panel at rest
RefreshOnce(p) ==
    /\ fetches[p] = {}
    /\ ClickRefresh(p)
    /\ before' = [before EXCEPT ![p] = {View(p)}]
    /\ UNCHANGED calls

\* A backend that does not change and answers every request, and a clock
\* that stands still: the panels load, messages are clicked on a panel at
\* rest, and Refresh is clicked any number of times.
InitRefresh ==
    /\ db \in InitialTables
    /\ session = [p \in Panels |->
                     IF p = "p1" THEN [email |-> DriverEmail("d1")] ELSE NoUser]
    /\ historyMode = [p \in Panels |-> FALSE]
    /\ bookings \in InitialBookings
    /\ now \in 0..MaxNow
    /\ Mounted
    /\ Elsewhere

NextRefresh ==
    \E p \in Panels :
        \/ \E f \in fetches[p] : FetchIdentity(p, f, "ok")
        \/ \E f \in fetches[p] : ServerQuery(p, f, "ok")
        \/ \E f \in fetches[p] : FetchResult(p, f)
        \/ \E f \in fetches[p] : ServerBookings(p, f, "ok")
        \/ \E f \in fetches[p] : FetchOverdue(p, f)
        \/ RefreshOnce(p)
        \/ \E i \in 1..Len(overdueMessages[p]) : fetches[p] = {} /\ MarkMessageAsRead(p, i)

SpecRefresh == InitRefresh /\ [][NextRefresh]_vars

\* ============================================== the send-whatsapp function
\* the longest array target explored
MaxTargets == 2

\* Strings are sequences of characters.  The entries of an array target and
\* the string targets explored:
Entries == {<<>>, <<"1">>, <<"2">>}
StringTargets == {<<>>, <<"1">>, <<" ", "1">>, <<"1", " ">>, <<"1", " ", "2">>, <<" ">>}

\* the target member of the request body
Targets ==
    {[kind |-> "array", items |-> a, value |-> <<>>] :
        a \in UNION {[1..n -> Entries] : n \in 0..MaxTargets}}
    \cup {[kind |-> "string", items |-> <<>>, value |-> v] : v \in StringTargets}
    \cup {[kind |-> "undefined", items |-> <<>>, value |-> <<>>]}

\* the requests: a preflight, a body that is not JSON, a body {target, message}
Requests ==
    {[method |-> m, json |-> FALSE, target |-> [kind |-> "undefined", items |-> <<>>,
                                                 value |-> <<>>], message |-> <<>>] :
        m \in {"OPTIONS", "POST"}}
    \cup {[method |-> "POST", json |-> TRUE, target |-> t, message |-> <<"m">>] :
            t \in Targets}

\* (variant: no entry is dropped)
FilterNothing(items) == items

\* target.filter(Boolean): the entries that are not the empty string
FilterBoolean(items) == SelectSeq(items, LAMBDA e : e # <<>>)

\* .join(",")
RECURSIVE Join(_)
Join(items) ==
    IF items = <<>> THEN <<>>
    ELSE IF Len(items) = 1 THEN items[1]
    ELSE items[1] \o <<",">> \o Join(Tail(items))

\* .trim()
RECURSIVE TrimStart(_)
TrimStart(str) == IF str # <<>> /\ Head(str) = " " THEN TrimStart(Tail(str)) ELSE str
RECURSIVE TrimEnd(_)
TrimEnd(str) ==
    IF str # <<>> /\ str[Len(str)] = " " THEN TrimEnd(SubSeq(str, 1, Len(str) - 1)) ELSE str
Trim(str) == TrimEnd(TrimStart(str))

\* Array.isArray(target) ? target.filter(Boolean).join(",")
\*                       : String(target || "").trim()
FormattedTarget(target) ==
    IF target.kind = "array" THEN Join(FilterBoolean(target.items))
    ELSE Trim(target.value)

\* what the gateway may answer: an HTTP status and a body text
HttpStatuses == {200, 400}
GatewayTexts == {"{}", "7", "Bad Gateway"}
GatewayAnswers == [status : HttpStatuses, text : GatewayTexts]

\* response.ok
Ok(status) == status \in 200..299

\* JSON.parse on the texts above: whether it succeeds, and the type of its value
IsJson(text) == text \in {"{}", "7"}
JsonType(text) == IF text = "{}" THEN "object" ELSE "number"

\* (variant: the fallback object does not carry the text)
ParseBodyEmptyFallback(raw) ==
    IF IsJson(raw) THEN [type |-> JsonType(raw), value |-> <<"json", raw>>]
    ELSE [type |-> "object", value |-> <<"raw", "">>]

\* try { parsed = JSON.parse(raw) } catch { parsed = { raw } }: a value is
\* kept as its type and either the JSON text it was parsed from or the raw
\* member of the fallback object
ParseBody(raw) ==
    IF IsJson(raw) THEN [type |-> JsonType(raw), value |-> <<"json", raw>>]
    ELSE [type |-> "object", value |-> <<"raw", raw>>]

\* the two envelopes, and the responses that carry them
Envelope(g) == [success |-> Ok(g.status), status |-> g.status, data |-> ParseBody(g.text)]
ErrorEnvelope == [success |-> FALSE, error |-> "String(error)"]
JsonResponse(body) == [status |-> 200, body |-> body]

OnlyAdapter ==
    UNCHANGED <<db, session, historyMode, transfers, loading, error, isHistoryView,
                driverId, toast, ops, fetches, calls, bookings, now, overdueMessages,
                unreadCount, before, profile, history>>

\* a request arrives: a preflight is answered at once, otherwise req.json()
\* is awaited
Receive(r) ==
    /\ adapter.pc = "idle"
    /\ adapter' = IF r.method = "OPTIONS"
                  THEN [adapter EXCEPT !.pc = "preflight", !.req = {r},
                          !.response = {[status |-> 200, body |-> [text |-> "ok"]]}]
                  ELSE [adapter EXCEPT !.pc = "json", !.req = {r}]
    /\ OnlyAdapter

\* the catch block: the error envelope, with status 200
Catch ==
    /\ adapter' = [adapter EXCEPT !.pc = "caught",
                      !.response = {JsonResponse(ErrorEnvelope)}]
    /\ OnlyAdapter

\* req.json() answers: it throws on a body that is not JSON; otherwise the
\* target is normalised and the request to the gateway is sent
ReadJson ==
    /\ adapter.pc = "json"
    /\ \E r \in adapter.req :
         IF ~r.json THEN Catch
         ELSE /\ adapter' = [adapter EXCEPT !.pc = "fetch",
                   !.forwarded = {[target |-> FormattedTarget(r.target),
                                   message |-> r.message]}]
              /\ OnlyAdapter

\* the gateway answers; its body is then read
GatewayAnswer(g) ==
    /\ adapter.pc = "fetch"
    /\ adapter' = [adapter EXCEPT !.pc = "text", !.upstream = {g}]
    /\ OnlyAdapter

\* fetch rejects, or reading the body fails
TransportFailure ==
    /\ adapter.pc \in {"fetch", "text"}
    /\ Catch

\* response.text() answers: the body is parsed and the envelope returned
ReadText ==
    /\ adapter.pc = "text"
    /\ \E g \in adapter.upstream :
         adapter' = [adapter EXCEPT !.pc = "returned",
                        !.response = {JsonResponse(Envelope(g))}]
    /\ OnlyAdapter

\* the response is sent; the function waits for the next request
NextRequest ==
    /\ adapter.pc \in {"preflight", "returned", "caught"}
    /\ adapter' = AdapterIdle
    /\ OnlyAdapter

\* the function alone: no panel is in use
InitAdapter ==
    /\ db = [t \in Rows |-> [status |-> "pending", driver_id |-> "d2"]]
    /\ session = [p \in Panels |-> NoUser]
    /\ historyMode = [p \in Panels |-> FALSE]
    /\ bookings = <<>>
    /\ now = 0
    /\ Mounted
    /\ Elsewhere

NextAdapter ==
    \/ \E r \in Requests : Receive(r)
    \/ ReadJson
    \/ \E g \in GatewayAnswers : GatewayAnswer(g)
    \/ TransportFailure
    \/ ReadText
    \/ NextRequest

SpecAdapter == InitAdapter /\ [][NextAdapter]_vars

\* ============================================================ ProfilePage
\* the userId prop, and the user id of the browser session: an id or none
UserIds == DriverIds \cup {Null}

OnlyProfile ==
    UNCHANGED <<db, session, historyMode, transfers, loading, error, isHistoryView,
                driverId, toast, ops, fetches, calls, bookings, now, overdueMessages,
                unreadCount, before, adapter, history>>

\* catch: setError("Failed to load user profile"); finally: setLoading(false)
ProfileFailed == [profile EXCEPT !.pc = "done", !.error = "Failed to load user profile",
                                 !.loading = FALSE]

\* the page is opened with prop uid in a browser session of user su; the
\* effect calls fetchUserProfile: setLoading(true), setError(null), then
\* getSession when no userId was given and the drivers query otherwise
MountProfile(uid, su) ==
    /\ profile.pc = "unmounted"
    /\ profile' = IF uid = Null
                  THEN [profile EXCEPT !.pc = "session", !.userId = uid, !.sessionUser = su]
                  ELSE [profile EXCEPT !.pc = "drivers", !.userId = uid, !.sessionUser = su,
                                       !.queries = @ \cup {"drivers"}]
    /\ OnlyProfile

\* getSession answers: sessionError and a session without user id are
\* thrown; otherwise userId is the session's user id and drivers is queried
ProfileSession(o) ==
    /\ profile.pc = "session"
    /\ profile' = IF o = "error" \/ profile.sessionUser = Null
                  THEN ProfileFailed
                  ELSE [profile EXCEPT !.pc = "drivers", !.userId = profile.sessionUser,
                                       !.queries = @ \cup {"drivers"}]
    /\ OnlyProfile

\* (variant: driverError is thrown, the users table is not tried)
ProfileDriversNoFallback(o) ==
    /\ profile.pc = "drivers"
    /\ profile' = IF o = "error"
                  THEN ProfileFailed
                  ELSE [profile EXCEPT !.pc = "done", !.loading = FALSE,
                                       !.user = {<<"drivers", profile.userId>>}]
    /\ OnlyProfile

\* the drivers query answers: the driver record is shown, or on driverError
\* the users table is queried
ProfileDrivers(o) ==
    /\ profile.pc = "drivers"
    /\ profile' = IF o = "error"
                  THEN [profile EXCEPT !.pc = "users", !.queries = @ \cup {"users"}]
                  ELSE [profile EXCEPT !.pc = "done", !.loading = FALSE,
                                       !.user = {<<"drivers", profile.userId>>}]
    /\ OnlyProfile

\* the users query answers: the user record is shown, or userError is thrown
ProfileUsers(o) ==
    /\ profile.pc = "users"
    /\ profile' = IF o = "error"
                  THEN ProfileFailed
                  ELSE [profile EXCEPT !.pc = "done", !.loading = FALSE,
                                       !.user = {<<"users", profile.userId>>}]
    /\ OnlyProfile

\* the awaits of fetchUserProfile
ProfileStep ==
    \/ \E o \in Outcomes : ProfileSession(o)
    \/ \E o \in Outcomes : ProfileDrivers(o)
    \/ \E o \in Outcomes : ProfileUsers(o)

\* ===================================================== TransactionHistory
\* A text is a sequence of characters.
Topup == <<"T", "o", "p", "u", "p">>
Payment == <<"p", "a", "y", "m", "e", "n", "t">>
Unknown == <<"U", "n", "k", "n", "o", "w", "n">>
Dash == <<"-">>

\* the rows of histori_transaksi; a column that is not set is the empty set
HistoriRow(id, uid, status, nominal, jenis, code) ==
    [id |-> id, user_id |-> uid, status |-> status, nominal |-> nominal,
     jenis_transaksi |-> jenis, code_booking |-> code, payment_method |-> {}]

HistoriTable ==
    << HistoriRow(1, "d1", {"paid"}, {50000}, {Topup}, {}),
       HistoriRow(2, "d1", {}, {0 - 20000}, {Payment}, {<<"B", "1">>}),
       HistoriRow(3, "d2", {"paid"}, {50000}, {Topup}, {}),
       HistoriRow(4, "d1", {"paid"}, {0 - 20000}, {Payment}, {<<"B", "2">>}),
       HistoriRow(5, "d1", {"paid"}, {}, {}, {}),
       HistoriRow(6, "d1", {"paid"}, {50000}, {Topup}, {}),
       HistoriRow(7, "d1", {"paid"}, {0 - 20000}, {Payment}, {<<"B", "3">>}) >>

\* from("histori_transaksi").select("*").eq("user_id", currentUserId)
SelectHistori(uid) == SelectSeq(HistoriTable, LAMBDA row : row.user_id = uid)

\* column || fallback
OrElse(column, fallback) ==
    IF column = {} THEN fallback ELSE CHOOSE v \in column : TRUE

\* historiData.map(...): status: transaction.status || "pending", and so on
FormatTransactions(rows) ==
    [i \in 1..Len(rows) |->
        [id |-> rows[i].id,
         status |-> OrElse(rows[i].status, "pending"),
         nominal |-> OrElse(rows[i].nominal, 0),
         jenis_transaksi |-> OrElse(rows[i].jenis_transaksi, Unknown),
         code_booking |-> OrElse(rows[i].code_booking, Dash),
         payment_method |-> OrElse(rows[i].payment_method, Dash)]]

OnlyHistory ==
    UNCHANGED <<db, session, historyMode, transfers, loading, error, isHistoryView,
                driverId, toast, ops, fetches, calls, bookings, now, overdueMessages,
                unreadCount, before, adapter, profile>>

\* the page is opened with prop uid in a browser session of user su; the
\* effect calls fetchTransactionHistory: setLoading(true), then getSession
MountHistory(uid, su) ==
    /\ history.pc = "unmounted"
    /\ history' = [history EXCEPT !.pc = "session", !.userId = uid, !.sessionUser = su]
    /\ OnlyHistory

\* getSession answers (its error is not read): currentUserId is the prop or
\* else the session's user id; without one the list is emptied and the load
\* returns, otherwise histori_transaksi is queried
HistorySession(o) ==
    /\ history.pc = "session"
    /\ LET sessionId == IF o = "error" THEN Null ELSE history.sessionUser
           currentUserId == IF history.userId # Null THEN history.userId ELSE sessionId
       IN  history' = IF currentUserId = Null
                      THEN [history EXCEPT !.pc = "done", !.transactions = <<>>,
                                           !.loading = FALSE]
                      ELSE [history EXCEPT !.pc = "query", !.currentUserId = currentUserId,
                                           !.queries = @ \cup {"histori_transaksi"}]
    /\ OnlyHistory

\* the query answers: historiError is thrown (catch sets the error), an empty
\* answer empties the list, otherwise the formatted rows are set
HistoryQuery(o) ==
    /\ history.pc = "query"
    /\ history' = IF o = "error"
                  THEN [history EXCEPT !.pc = "done", !.loading = FALSE,
                                       !.error = "Failed to fetch transaction history"]
                  ELSE [history EXCEPT !.pc = "done", !.loading = FALSE,
                           !.transactions =
                               FormatTransactions(SelectHistori(history.currentUserId))]
    /\ OnlyHistory

\* ------------------------------------------------ filters and pagination
\* String.prototype.toLowerCase
LowerCase(c) ==
    CASE c = "T" -> "t" [] c = "P" -> "p" [] c = "B" -> "b" [] c = "U" -> "u"
      [] OTHER -> c
ToLowerCase(text) == [i \in DOMAIN text |-> LowerCase(text[i])]

\* String.prototype.includes
Includes(text, q) ==
    \E i \in 1..(Len(text) + 1) :
        i + Len(q) - 1 <= Len(text) /\ SubSeq(text, i, i + Len(q) - 1) = q

MatchesSearch(transaction, searchQuery) ==
    \/ Includes(ToLowerCase(transaction.jenis_transaksi), ToLowerCase(searchQuery))
    \/ Includes(ToLowerCase(transaction.code_booking), ToLowerCase(searchQuery))
    \/ Includes(ToLowerCase(transaction.payment_method), ToLowerCase(searchQuery))

MatchesFilter(transaction, activeFilter) ==
    \/ activeFilter = "all"
    \/ activeFilter = "income" /\ transaction.nominal > 0
    \/ activeFilter = "expense" /\ transaction.nominal < 0
    \/ /\ activeFilter = "topup"
       /\ Includes(ToLowerCase(transaction.jenis_transaksi), ToLowerCase(Topup))
    \/ /\ activeFilter = "payment"
       /\ Includes(ToLowerCase(transaction.jenis_transaksi), Payment)

\* transactions.filter(...)
FilteredTransactions(h) ==
    SelectSeq(h.transactions,
              LAMBDA t : MatchesSearch(t, h.searchQuery) /\ MatchesFilter(t, h.activeFilter))

\* Math.ceil(filteredTransactions.length / rowsPerPage)
TotalPages(h) == Ceil(Len(FilteredTransactions(h)), h.rowsPerPage)

\* Array.prototype.slice(start, end), both counted from 0, end excluded
Slice(list, start, end) ==
    LET m == IF end < Len(list) THEN end ELSE Len(list)
    IN  IF start >= m THEN <<>> ELSE SubSeq(list, start + 1, m)

\* filteredTransactions.slice(startIndex, endIndex)
PaginatedTransactions(h) ==
    LET startIndex == (h.currentPage - 1) * h.rowsPerPage
        endIndex == startIndex + h.rowsPerPage
    IN  Slice(FilteredTransactions(h), startIndex, endIndex)

\* the filters, the table and the pagination controls are rendered when the
\* page is neither loading nor in its error state
Shown(h) == h.pc = "done" /\ ~h.loading /\ h.error = Null

\* the pagination controls are rendered when some transaction passes
Paged(h) == Shown(h) /\ Len(FilteredTransactions(h)) > 0

\* the texts typed into the search box, the filter buttons, the choices of
\* rows per page
SearchQueries == {<<>>, <<"t", "o", "p">>, <<"B">>}
Filters == {"all", "income", "expense", "topup", "payment"}
RowsPerPageChoices == {5, 10, 20, 50}

\* the highest page number the next-page button is followed to
MaxPage == 3

\* the search box changes: setSearchQuery, then the effect sets page 1
SetSearchQuery(q) ==
    /\ Shown(history) /\ q # history.searchQuery
    /\ history' = [history EXCEPT !.searchQuery = q, !.currentPage = 1]
    /\ OnlyHistory

\* a filter button: setActiveFilter, then the effect sets page 1 when the
\* filter has changed
SetActiveFilter(f) ==
    /\ Shown(history)
    /\ history' = [history EXCEPT !.activeFilter = f,
                                  !.currentPage = IF f = history.activeFilter THEN @ ELSE 1]
    /\ OnlyHistory

\* the rows-per-page select: setRowsPerPage(Number(value)); setCurrentPage(1)
SetRowsPerPage(n) ==
    /\ Paged(history) /\ n # history.rowsPerPage
    /\ history' = [history EXCEPT !.rowsPerPage = n, !.currentPage = 1]
    /\ OnlyHistory

\* the first-page and previous-page buttons, disabled on page 1
FirstPage ==
    /\ Paged(history) /\ history.currentPage # 1
    /\ history' = [history EXCEPT !.currentPage = 1]
    /\ OnlyHistory
PreviousPage ==
    /\ Paged(history) /\ history.currentPage # 1
    /\ history' = [history EXCEPT !.currentPage = @ - 1]
    /\ OnlyHistory

\* the number on the i-th of the page-number buttons
PageNum(i, currentPage, totalPages) ==
    IF totalPages <= 5 THEN i + 1
    ELSE IF currentPage <= 3 THEN i + 1
    ELSE IF currentPage >= totalPages - 2 THEN totalPages - 4 + i
    ELSE currentPage - 2 + i

\* a page-number button: there are Math.min(5, totalPages) of them
NumberedPage(i) ==
    /\ Paged(history)
    /\ 0 <= i /\ i < 5 /\ i < TotalPages(history)
    /\ history' = [history EXCEPT
          !.currentPage = PageNum(i, history.currentPage, TotalPages(history))]
    /\ OnlyHistory

\* the next-page and last-page buttons, disabled on page totalPages
NextPage ==
    /\ Paged(history) /\ history.currentPage # TotalPages(history)
    /\ history.currentPage < MaxPage
    /\ history' = [history EXCEPT !.currentPage = @ + 1]
    /\ OnlyHistory
LastPage ==
    /\ Paged(history) /\ history.currentPage # TotalPages(history)
    /\ history' = [history EXCEPT !.currentPage = TotalPages(history)]
    /\ OnlyHistory

\* the page is rendered with another userId prop: the effect runs again and
\* calls fetchTransactionHistory (setLoading(true), then getSession)
ReloadHistory(uid) ==
    /\ history.pc = "done" /\ uid # history.userId
    /\ history' = [history EXCEPT !.pc = "session", !.userId = uid, !.loading = TRUE]
    /\ OnlyHistory

\* The transaction history page in use.
NextPaging ==
    \/ \E uid \in UserIds, su \in UserIds : MountHistory(uid, su)
    \/ \E o \in Outcomes : HistorySession(o)
    \/ \E o \in Outcomes : HistoryQuery(o)
    \/ \E uid \in UserIds : ReloadHistory(uid)
    \/ \E q \in SearchQueries : SetSearchQuery(q)
    \/ \E f \in Filters : SetActiveFilter(f)
    \/ \E n \in RowsPerPageChoices : SetRowsPerPage(n)
    \/ FirstPage
    \/ PreviousPage
    \/ \E i \in 0..4 : NumberedPage(i)
    \/ NextPage
    \/ LastPage

\* ---------------------------------------------------- the loads together
\* The panels and the two pages load, each in its own browser session.
InitLoads ==
    /\ db \in InitialTables
    /\ session = [p \in Panels |->
                     IF p = "p1" THEN [email |-> DriverEmail("d1")] ELSE NoUser]
    /\ historyMode = [p \in Panels |-> FALSE]
    /\ bookings = <<>>
    /\ now = 0
    /\ Mounted
    /\ Elsewhere

NextLoads ==
    \/ ContinueFetch
    \/ \E uid \in UserIds, su \in UserIds : MountProfile(uid, su)
    \/ \E o \in Outcomes : ProfileSession(o)
    \/ \E o \in Outcomes : ProfileDrivers(o)
    \/ \E o \in Outcomes : ProfileUsers(o)
    \/ \E uid \in UserIds, su \in UserIds : MountHistory(uid, su)
    \/ \E o \in Outcomes : HistorySession(o)
    \/ \E o \in Outcomes : HistoryQuery(o)

SpecLoads == InitLoads /\ [][NextLoads]_vars

SpecPaging == InitLoads /\ [][NextPaging]_vars

\* ------------------------------------------------- the profile page
\* The profile page is opened while the panels load.  Every request of
\* fetchUserProfile is answered in the end, so the load takes its next step.
NextProfile ==
    \/ ContinueFetch
    \/ \E uid \in UserIds, su \in UserIds : MountProfile(uid, su)
    \/ ProfileStep

SpecProfile == InitLoads /\ [][NextProfile]_vars /\ WF_vars(ProfileStep)

\* ------------------------------------------------- everything together
\* A driver uses the panel (list, Refresh, view toggle, the three buttons)
\* while the profile page and the transaction history page load in the
\* driver's browser session.
NextFrame ==
    \/ Next
    \/ MountProfile(Null, "d1")
    \/ \E o \in Outcomes : ProfileSession(o)
    \/ \E o \in Outcomes : ProfileDrivers(o)
    \/ \E o \in Outcomes : ProfileUsers(o)
    \/ MountHistory(Null, "d1")
    \/ \E o \in Outcomes : HistorySession(o)
    \/ \E o \in Outcomes : HistoryQuery(o)

SpecFrame == InitLoads /\ [][NextFrame]_vars

\* ================================================================ claims
\* The driver whose stored email is the session's address (compared without
\* regard to case), Null when there is none.
SessionDriver(p) ==
    LET m == {d \in DriverIds : Lower(DriverEmail(d)) = Lower(session[p].email)}
    IN  IF m = {} THEN Null ELSE CHOOSE d \in m : TRUE

\* In this step the database ran the update of op and did not reject it.
UpdateAccepted(p, op) ==
    LET ans == [op EXCEPT !.stage = "answer", !.rejected = FALSE] IN
    /\ op.stage = "update"
    /\ op \notin ops'[p]
    /\ ans \notin ops[p]
    /\ ans \in ops'[p]

\* In this step the handler invocation op returned.
Ended(p, op) == op \in ops[p] /\ ops'[p] = ops[p] \ {op}

\* C1: an accept on a pending transfer, by a caller whose identity resolved
\* and whose update the backend did not reject, leaves the persisted row
\* confirmed and assigned to the caller's driver.
C1_AcceptConfirms ==
    [][\A p \in Panels : \A op \in ops[p] :
         (/\ op.kind = "accept"
          /\ op.id \in Rows
          /\ db[op.id].status = "pending"
          /\ UpdateAccepted(p, op))
         => /\ SessionDriver(p) \in DriverIds
            /\ db'[op.id] = [status |-> "confirmed", driver_id |-> SessionDriver(p)]]_vars

\* the only call so far was an accept by driver d1 of row 2 (created pending
\* and assigned to d2), and the database has run it
C1_Witness ==
    \E p \in Panels : \E op \in ops[p] :
        /\ calls = 1
        /\ op.kind = "accept" /\ op.id = 2 /\ op.stage = "answer" /\ ~op.rejected
        /\ SessionDriver(p) = "d1"
        /\ db[2] = [status |-> "confirmed", driver_id |-> "d1"]

\* C2: a decline on a pending transfer that the backend does not reject
\* leaves the persisted status canceled whoever the caller is; decline never
\* resolves an identity and leaves the assigned driver as it was.
C2_DeclineCancels ==
    [][\A p \in Panels : \A op \in ops[p] :
         op.kind = "decline" =>
            /\ op.stage # "identity"
            /\ op.driver = Null
            /\ (/\ op.id \in Rows
                /\ db[op.id].status = "pending"
                /\ UpdateAccepted(p, op))
               => /\ db'[op.id].status = "canceled"
                  /\ db'[op.id].driver_id = db[op.id].driver_id]_vars

\* nobody is signed in on the panel, and its decline of an assigned pending
\* row has been run by the database
C2_Witness ==
    \E p \in Panels : \E op \in ops[p] :
        /\ calls = 1
        /\ session[p] = NoUser
        /\ op.kind = "decline" /\ op.stage = "answer" /\ ~op.rejected
        /\ op.id \in Rows
        /\ db[op.id].status = "canceled"
        /\ db[op.id].driver_id # Null

\* C3: a complete on a confirmed transfer that the backend does not reject
\* leaves the persisted status completed.
C3_CompleteCompletes ==
    [][\A p \in Panels : \A op \in ops[p] :
         (/\ op.kind = "complete"
          /\ op.id \in Rows
          /\ db[op.id].status = "confirmed"
          /\ UpdateAccepted(p, op))
         => /\ db'[op.id].status = "completed"
            /\ db'[op.id].driver_id = db[op.id].driver_id]_vars

\* row 2 was accepted by d1 (which confirmed it) and then completed
C3_Witness ==
    \E p \in Panels : \E op \in ops[p] :
        /\ calls = 2
        /\ op.kind = "complete" /\ op.id = 2 /\ op.stage = "answer" /\ ~op.rejected
        /\ db[2] = [status |-> "completed", driver_id |-> "d1"]

\* C4: every record the list query returns is a row of the resolved driver;
\* the active query returns no completed or canceled row and the history
\* query no pending or confirmed row.
C4_ListFilter ==
    \A p \in Panels : \A f \in fetches[p] :
        (f.stage = "result" /\ ~f.failed) =>
            \A r \in f.data :
                /\ r.id \in Rows
                /\ r.driver_id = SessionDriver(p)
                /\ historyMode[p] => r.status \notin {"pending", "confirmed"}
                /\ ~historyMode[p] => r.status \notin {"completed", "canceled"}

\* a history query has returned a row while another row of the same driver
\* stayed out of it
C4_Witness ==
    \E p \in Panels : \E f \in fetches[p] :
        /\ historyMode[p]
        /\ f.stage = "result" /\ ~f.failed
        /\ f.data # {}
        /\ \E t \in Rows : db[t].status \in ActiveGroup /\ db[t].driver_id = SessionDriver(p)

\* C5: every persisted status is one of the four values, and a confirmed or
\* completed transfer has an assigned driver.
C5_StatusInvariant ==
    \A t \in Rows :
        /\ db[t].status \in Statuses
        /\ db[t].status \in {"confirmed", "completed"} => db[t].driver_id # Null

\* C6: completed and canceled are terminal: no step changes the persisted
\* status of a transfer that is completed or canceled.
C6_Terminal ==
    [][\A t \in Rows :
         db[t].status \in {"completed", "canceled"} => db'[t].status = db[t].status]_vars

C8_AcceptNoIdentity ==
    [][\A p \in Panels : \A op \in ops[p] :
         op.kind = "accept" =>
            /\ op.stage \in {"update", "answer"} =>
                  /\ HasUser(p)
                  /\ op.driver \in DriverIds
                  /\ op.driver = SessionDriver(p)
            /\ (op.stage = "identity" /\ Ended(p, op)) =>
                  /\ db' = db
                  /\ transfers' = transfers
                  /\ fetches' = fetches
                  /\ toast'[p] = Destructive]_vars

\* an accept was called where nobody is signed in, and where the session's
\* email has no exact match among the drivers; both have returned with an
\* error toast and no row has changed
C8_Witness ==
    /\ calls = 2
    /\ \A t \in Rows : db[t].status = "pending"
    /\ \A p \in Panels : toast[p] = Destructive /\ ops[p] = {}
    /\ \E p \in Panels : ~HasUser(p)
    /\ \E p \in Panels : HasUser(p) /\ LookupEq(session[p].email) = "error"

\* C9: when the backend rejects the update of accept, decline or complete,
\* the handler shows an error toast, leaves the local list as it was and
\* starts no fetch.
C9_RejectedUpdate ==
    [][\A p \in Panels : \A op \in ops[p] :
         (op.stage = "answer" /\ op.rejected /\ Ended(p, op)) =>
            /\ toast'[p] = Destructive
            /\ transfers' = transfers
            /\ fetches' = fetches
            /\ loading' = loading
            /\ db' = db]_vars

\* the rejection of an update is on its way to a panel that lists the
\* transfer
C9_Witness ==
    \E p \in Panels : \E op \in ops[p] :
        /\ op.stage = "answer" /\ op.rejected
        /\ \E r \in transfers[p] : r.id = op.id

\* C10: a complete on a transfer that is already completed, when the
\* backend does not reject it, leaves every persisted row as it was, and the
\* handler then reports success, not an error.
C10_CompleteTwice ==
    [][\A p \in Panels : \A op \in ops[p] :
         (op.kind = "complete" /\ op.id \in Rows /\ db[op.id].status = "completed") =>
            /\ UpdateAccepted(p, op) => db' = db
            /\ (op.stage = "answer" /\ ~op.rejected /\ Ended(p, op)) =>
                  toast'[p] = Success]_vars

\* two calls, both complete on the same row, the second answered without a
\* rejection
C10_Witness ==
    \E p \in Panels : \E op \in ops[p] :
        /\ calls = 2
        /\ op.kind = "complete" /\ op.stage = "answer" /\ ~op.rejected
        /\ op.id \in Rows
        /\ db[op.id].status = "completed"
        /\ \E q \in Panels : toast[q] = Success
        /\ \A t \in Rows \ {op.id} : db[t].status = "pending"


\* In this step the answer of the bookings query of fetch f was handled, and it
\* was not an error.
OverdueFetched(p, f) ==
    /\ f \in fetches[p] /\ f.stage = "messages" /\ ~f.failed
    /\ f \notin fetches'[p]

\* the messages of list msgs made for booking b
MessagesFor(msgs, b) == {j \in 1..Len(msgs) : msgs[j].id = b.id}

\* d is the ceiling of diff / DayTicks
IsCeiling(d, diff) == (d - 1) * DayTicks < diff /\ diff <= d * DayTicks

\* C11: the messages set after a bookings answer are exactly one per fetched
\* booking with an end date that lies before now (diffDays > 0) and none for
\* any other booking; each has days_overdue >= 1, the ceiling of the elapsed
\* days, and the booking's remaining payment as its amount.
C11_DeriverExact ==
    [][\A p \in Panels : \A f \in fetches[p] :
         OverdueFetched(p, f) =>
            LET msgs == overdueMessages'[p] IN
            /\ \A i \in 1..Len(f.rows) :
                 LET b == f.rows[i] IN
                 Cardinality(MessagesFor(msgs, b)) =
                    IF b.end_date # NoDate /\ now > GetTime(b.end_date) THEN 1 ELSE 0
            /\ \A j \in 1..Len(msgs) :
                 /\ msgs[j].days_overdue >= 1
                 /\ \E i \in 1..Len(f.rows) :
                      /\ f.rows[i].id = msgs[j].id
                      /\ msgs[j].amount = f.rows[i].remaining_payments
                      /\ IsCeiling(msgs[j].days_overdue, now - GetTime(f.rows[i].end_date))]_vars

\* two bookings were fetched and one message is shown, two days overdue
C11_Witness ==
    \E p \in Panels :
        /\ driverId[p] \in DriverIds
        /\ fetches[p] = {}
        /\ Len(SelectBookings(driverId[p])) = 2
        /\ Len(overdueMessages[p]) = 1
        /\ overdueMessages[p][1].days_overdue = 2

\* the calendar day of a point in time
DayOf(t) == t \div DayTicks
\* the end date is a date: midnight of its day
IsDate(d) == d # NoDate /\ GetTime(d) % DayTicks = 0

\* C12: a fetched booking whose end_date is the date k >= 1 days before
\* today gets exactly one message, with days_overdue = k and the remaining
\* payment as amount, at whatever time of day the answer is handled; a
\* booking whose end_date is the day after today gets no message.
C12_DaysOverdue ==
    [][\A p \in Panels : \A f \in fetches[p] :
         OverdueFetched(p, f) =>
            LET msgs == overdueMessages'[p] IN
            \A i \in 1..Len(f.rows) :
                LET b == f.rows[i]
                    k == DayOf(now) - DayOf(GetTime(b.end_date))
                IN  IsDate(b.end_date) =>
                      /\ k >= 1 =>
                           /\ Cardinality(MessagesFor(msgs, b)) = 1
                           /\ \A j \in MessagesFor(msgs, b) :
                                /\ msgs[j].days_overdue = k
                                /\ msgs[j].amount = b.remaining_payments
                      /\ k = 0 - 1 => MessagesFor(msgs, b) = {}]_vars

\* C13: after every bookings answer that is not an error, whatever was marked
\* read before, every message of the list is unread and the unread count is
\* the number of messages.
C13_ReadFlagReset ==
    [][\A p \in Panels : \A f \in fetches[p] :
         OverdueFetched(p, f) =>
            /\ \A j \in 1..Len(overdueMessages'[p]) : ~overdueMessages'[p][j].is_read
            /\ unreadCount'[p] = Len(overdueMessages'[p])]_vars

\* a message of the list is marked read and the bookings answer that holds
\* its booking is about to be handled
C13_Witness ==
    \E p \in Panels : \E f \in fetches[p] :
        /\ f.stage = "messages" /\ ~f.failed
        /\ \E j \in 1..Len(overdueMessages[p]) :
             /\ overdueMessages[p][j].is_read
             /\ \E i \in 1..Len(f.rows) :
                  f.rows[i].id = overdueMessages[p][j].id /\ Surfaced(f.rows[i], now)


\* C14: Refresh writes no persisted row, and when a refresh has completed,
\* against a backend and a clock that did not change, the panel shows what it
\* showed when Refresh was clicked: the same transfer list, error message,
\* overdue messages with their read flags and unread count.
C14_RefreshIdempotent ==
    [][/\ db' = db
       /\ bookings' = bookings
       /\ \A p \in Panels :
            (before[p] # {} /\ fetches[p] # {} /\ fetches'[p] = {}) =>
               [transfers |-> transfers'[p], error |-> error'[p],
                messages |-> overdueMessages'[p], unread |-> unreadCount'[p]]
                   \in before[p]]_vars


\* C15: every request that is not a preflight is answered with HTTP status
\* 200 and a JSON envelope that has success (a boolean), status (a number)
\* and data (an object), whichever path the handler took.
C15_EnvelopeAlways ==
    (adapter.pc \in {"returned", "caught"}) =>
        /\ adapter.response # {}
        /\ \A r \in adapter.response :
             /\ r.status = 200
             /\ {"success", "status", "data"} \subseteq DOMAIN r.body
             /\ r.body.success \in BOOLEAN
             /\ r.body.status \in Nat
             /\ r.body.data.type = "object"

\* the lengths of the first k entries, each followed by a comma
RECURSIVE Offset(_, _)
Offset(items, k) == IF k = 0 THEN 0 ELSE Offset(items, k - 1) + Len(items[k]) + 1

\* str is the entries of items, in their order, with a comma between two
IsJoinOf(str, items) ==
    IF items = <<>> THEN str = <<>>
    ELSE /\ Len(str) = Offset(items, Len(items)) - 1
         /\ \A k \in 1..Len(items) :
              /\ SubSeq(str, Offset(items, k - 1) + 1, Offset(items, k) - 1) = items[k]
              /\ k < Len(items) => str[Offset(items, k)] = ","

\* str is what is left of whole when the spaces at its two ends are cut off
IsTrimOf(str, whole) ==
    /\ \E i \in 1..(Len(whole) + 1), j \in 0..Len(whole) :
         /\ str = SubSeq(whole, i, j)
         /\ \A k \in 1..Len(whole) : (k < i \/ k > j) => whole[k] = " "
    /\ str # <<>> => str[1] # " " /\ str[Len(str)] # " "

\* C16 as stated: the forwarded target is the entries of an array target
\* joined with commas in their order, and a string target itself.
C16_TargetAsGiven ==
    \A q \in adapter.req : \A fw \in adapter.forwarded :
        /\ q.target.kind = "array" => IsJoinOf(fw.target, q.target.items)
        /\ q.target.kind = "string" => fw.target = q.target.value

\* C16 (amended): the forwarded target is a single string: for an array
\* target the non-empty entries joined with commas in their order, for a
\* string target that string without the whitespace at its two ends.
C16_TargetNormalized ==
    \A q \in adapter.req : \A fw \in adapter.forwarded :
        /\ fw.target \in Seq({"1", "2", " ", ","})
        /\ q.target.kind = "array" =>
              IsJoinOf(fw.target, SelectSeq(q.target.items, LAMBDA e : Len(e) > 0))
        /\ q.target.kind = "string" => IsTrimOf(fw.target, q.target.value)

\* two entries were forwarded as "1,2"
C16_Witness ==
    \E q \in adapter.req : \E fw \in adapter.forwarded :
        /\ q.target.kind = "array"
        /\ q.target.items = <<<<"1">>, <<"2">>>>
        /\ fw.target = <<"1", ",", "2">>

\* C17: when the handler has read the gateway's body, the answer has HTTP
\* status 200, success and status mirror the gateway's HTTP outcome, and data
\* is {raw: the text} for a body that is not JSON and the parsed value for a
\* body that is.
C17_RawFallback ==
    adapter.pc = "returned" =>
        /\ adapter.upstream # {} /\ adapter.response # {}
        /\ \A g \in adapter.upstream : \A r \in adapter.response :
             /\ r.status = 200
             /\ r.body.success = (g.status >= 200 /\ g.status < 300)
             /\ r.body.status = g.status
             /\ ~IsJson(g.text) => r.body.data = [type |-> "object", value |-> <<"raw", g.text>>]
             /\ IsJson(g.text) => r.body.data = [type |-> JsonType(g.text), value |-> <<"json", g.text>>]

\* the gateway answered 400 with a body that is not JSON, and the handler
\* has returned
C17_Witness ==
    /\ adapter.pc = "returned"
    /\ \E g \in adapter.upstream : g.status = 400 /\ ~IsJson(g.text)


\* C18: in each of the three views, when no identifier was supplied and no
\* session exists, the finished load has left an error shown to the user and
\* has issued no data query.
C18_NoSessionError ==
    /\ (profile.pc = "done" /\ profile.userId = Null /\ profile.sessionUser = Null) =>
          profile.error # Null /\ profile.queries = {}
    /\ (history.pc = "done" /\ history.userId = Null /\ history.sessionUser = Null) =>
          history.error # Null /\ history.queries = {}
    /\ \A p \in Panels :
          (~HasUser(p) /\ fetches[p] = {}) =>
             /\ error[p] # Null
             /\ driverId[p] = Null /\ transfers[p] = {}


\* C19: the driver is resolved from the session email without regard to
\* letter case by the list operation and by accept alike: the list query is
\* sent for the session's driver, an accept of a signed-in user whose email
\* matches a driver goes on to its update with that driver, and a finished
\* load reports a missing match as not-found and a missing user as
\* not-authenticated.
C19_CaseInsensitive ==
    /\ [](\A p \in Panels :
            /\ \A f \in fetches[p] : f.stage = "query" => f.driver = SessionDriver(p)
            /\ (fetches[p] = {} /\ ~HasUser(p)) => error[p] = "Driver not authenticated"
            /\ (fetches[p] = {} /\ HasUser(p) /\ SessionDriver(p) = Null) =>
                  error[p] = "Driver ID not found for current user")
    /\ [][\A p \in Panels : \A op \in ops[p] :
            (/\ op.kind = "accept" /\ op.stage = "identity"
             /\ op \notin ops'[p]
             /\ HasUser(p) /\ SessionDriver(p) # Null) =>
                \E next \in ops'[p] :
                    next.n = op.n /\ next.stage = "update" /\ next.driver = SessionDriver(p)]_vars


\* C20: when the list query succeeds with zero records, handling the answer
\* does not set the view's error state and makes the transfer list empty.
C20_EmptyNotError ==
    [][\A p \in Panels : \A f \in fetches[p] :
         (f.stage = "result" /\ ~f.failed /\ f.data = {} /\ f \notin fetches'[p]) =>
            /\ error'[p] = error[p]
            /\ transfers'[p] = {}]_vars

\* --------------------------------------------------------------------- C21
\* C21: the only persisted mutation is on the targeted transfer row.  A step
\* that changes a transfer row is the update of one handler invocation on the
\* row with that invocation's identifier: accept changes that row's status
\* (to confirmed) and its driver, decline and complete change its status
\* only, and every other transfer row is left as it was.  No step of the
\* panel, of the profile load or of the transaction history load changes
\* another transfer row or a booking.
C21_OnlyTargetRow ==
    [][ /\ bookings' = bookings
        /\ \A t \in Rows :
             db'[t] # db[t] =>
                \E p \in Panels : \E op \in ops[p] :
                    /\ op.stage = "update" /\ op.id = t
                    /\ [op EXCEPT !.stage = "answer"] \in ops'[p]
                    /\ \A u \in Rows \ {t} : db'[u] = db[u]
                    /\ op.kind = "accept" =>
                          db'[t] = [status |-> "confirmed", driver_id |-> op.driver]
                    /\ op.kind = "decline" =>
                          db'[t] = [status |-> "canceled", driver_id |-> db[t].driver_id]
                    /\ op.kind = "complete" =>
                          db'[t] = [status |-> "completed", driver_id |-> db[t].driver_id]
      ]_vars

\* one transfer was accepted and completed through the panel, the other one
\* is as it was created, and both pages have loaded
C21_Witness ==
    /\ db[1] = [status |-> "completed", driver_id |-> "d1"]
    /\ db[2] = [status |-> "pending", driver_id |-> "d2"]
    /\ profile.pc = "done" /\ history.pc = "done"

\* --------------------------------------------------------------------- C22
\* C22: after a successful accept, decline or complete the list is fetched
\* again, and once every request in flight has completed, the local list of
\* the panel is the persisted set of transfers of its driver in the status
\* group of its list query, whatever the interleaving of the fetches and the
\* operations was.
C22_ListResynced ==
    \A p \in Panels :
        /\ \A q \in Panels : ops[q] = {} /\ fetches[q] = {}
        /\ toast[p] = Success
        => transfers[p] = SelectTransfers(driverId[p], historyMode[p])

\* --------------------------------------------------------------------- C23
\* C23: every invocation of the transfer fetch comes to its end on every
\* path (nobody signed in, driver lookup error, driver not found, query
\* error, thrown exception, success) and then loading is false, which is
\* what enables the Refresh button again.
C23_LoadingEnds ==
    \A p \in Panels : (fetches[p] # {}) ~> (fetches[p] = {} /\ ~loading[p])

\* one panel's fetch has ended in the catch block and the other's with a
\* list, and neither panel is loading
C23_Witness ==
    \E p, q \in Panels :
        /\ error[p] = "An unexpected error occurred"
        /\ transfers[q] # {} /\ error[q] = Null
        /\ \A r \in {p, q} : fetches[r] = {} /\ ~loading[r]

\* --------------------------------------------------------------------- C24
\* C24: the profile load falls back from the drivers table to the users
\* table.  When the load is over, loading is false and one of these holds:
\* only drivers was queried and its record is shown without an error;
\* drivers and then users were queried and the user record is shown without
\* an error; or nothing is shown and the error is set, which happens only
\* when both tables were queried or no user id could be resolved (no table
\* queried).  Before the load is over there is no error.
C24_ProfileFallback ==
    /\ profile.pc # "done" => profile.error = Null /\ profile.user = {}
    /\ profile.pc = "users" => profile.queries = {"drivers", "users"}
    /\ profile.pc = "done" =>
          /\ ~profile.loading
          /\ \/ /\ profile.user = {<<"drivers", profile.userId>>}
                /\ profile.queries = {"drivers"}
                /\ profile.error = Null
             \/ /\ profile.user = {<<"users", profile.userId>>}
                /\ profile.queries = {"drivers", "users"}
                /\ profile.error = Null
             \/ /\ profile.user = {}
                /\ profile.queries \in {{}, {"drivers", "users"}}
                /\ profile.error = "Failed to load user profile"

\* the drivers lookup failed and the user record is shown
C24_Witness ==
    /\ profile.pc = "done"
    /\ profile.user = {<<"users", "d1">>}
    /\ ~profile.loading

\* --------------------------------------------------------------------- C25
\* C25: a handler reports success only if the targeted persisted row carries
\* the new status afterwards: at a step where an invocation returns with the
\* success toast, its identifier is the id of a row and that row's status is
\* the one the handler writes.  When the update matched no row, success is
\* not reported.
C25_SuccessMeansUpdated ==
    [][ \A p \in Panels : \A op \in ops[p] :
            /\ op.stage = "answer"
            /\ op \notin ops'[p]
            /\ toast'[p] = Success
            => /\ op.id \in Rows
               /\ db'[op.id].status =
                     (CASE op.kind = "accept" -> "confirmed"
                        [] op.kind = "decline" -> "canceled"
                        [] op.kind = "complete" -> "completed")
      ]_vars

\* --------------------------------------------------------------------- C26
\* C26: in every reachable state of the notifications view, after any
\* fetches and clicks on the messages (the same message more than once
\* included), the unread count is the number of overdue messages whose
\* is_read flag is false.
C26_UnreadCountExact ==
    \A p \in Panels : unreadCount[p] = Unread(overdueMessages[p])

\* --------------------------------------------------------------------- C27
\* C27: whenever the panel shows its history view and the fetch started by
\* the toggle has completed without an error, the listed transfers are
\* completed or canceled ones only; whenever it shows the notifications
\* view, they are pending or confirmed ones only.
C27_ViewShowsItsGroup ==
    \A p \in Panels :
        fetches[p] = {} /\ error[p] = Null =>
            \A r \in transfers[p] :
                r.status \in (IF isHistoryView[p] THEN HistoryGroup ELSE ActiveGroup)

\* --------------------------------------------------------------------- C28
\* C28: the balance-history section of the profile page leaves its loading
\* state: once the profile load has finished and the profile is shown,
\* loadingSaldoHistory becomes false (and the section then shows the payment
\* rows or the empty-history message).
C28_SaldoHistoryLoads ==
    (profile.pc = "done" /\ profile.error = Null) ~> ~profile.loadingSaldoHistory

\* --------------------------------------------------------------------- C29
\* C29: in the transaction history view, after any search changes, filter
\* changes, rows-per-page changes, page-button clicks and reloads for another
\* user, whenever the filtered list shown is not empty the current page is
\* between 1 and totalPages, totalPages being the ceiling of the filtered
\* count over rowsPerPage, so that the page shown is a non-empty slice of at
\* most rowsPerPage transactions.
C29_PageInRange ==
    Paged(history) =>
        /\ 1 <= history.currentPage
        /\ history.currentPage <= TotalPages(history)
        /\ (TotalPages(history) - 1) * history.rowsPerPage < Len(FilteredTransactions(history))
        /\ Len(FilteredTransactions(history)) <= TotalPages(history) * history.rowsPerPage
        /\ Len(PaginatedTransactions(history)) \in 1..history.rowsPerPage

\* --------------------------------------------------------------------- C30
\* the transitions of the transfer lifecycle
LegalTransitions ==
    {<<"pending", "confirmed">>, <<"pending", "canceled">>, <<"confirmed", "completed">>}

\* C30: through the panel a handler is invoked only from a button that is
\* offered: Accept and Decline for a listed transfer whose local status is
\* pending, Complete for one whose local status is confirmed, none of them
\* in the history view.  Consequently, when the local list agrees with the
\* persisted state (it is what the list query would return), every change
\* of a persisted status made through the panel is one of
\* pending -> confirmed, pending -> canceled, confirmed -> completed.
C30_LegalThroughPanel ==
    [][ \A p \in Panels :
          /\ \A op \in ops'[p] :
                op.n \notin {x.n : x \in ops[p]} =>
                    /\ ~isHistoryView[p]
                    /\ \E r \in transfers[p] :
                          /\ r.id = op.id
                          /\ op.kind \in {"accept", "decline"} => r.status = "pending"
                          /\ op.kind = "complete" => r.status = "confirmed"
          /\ \A op \in ops[p] :
                /\ op.stage = "update" /\ op.id \in Rows
                /\ [op EXCEPT !.stage = "answer"] \in ops'[p]
                /\ db'[op.id].status # db[op.id].status
                /\ transfers[p] = SelectTransfers(driverId[p], historyMode[p])
                => <<db[op.id].status, db'[op.id].status>> \in LegalTransitions
      ]_vars

====
